---- MODULE Spec2Model ----
(***************************************************************************)
(* A model of the Bitcoin price MCP server of src/src/index.ts, run with   *)
(* --mcp-server: the HTTP request handler (preflight, /events stream,      *)
(* discovery, health, /execute, 404), the provider fallback of             *)
(* getBitcoinPrice, the heartbeat timers and the SIGINT shutdown.          *)
(*                                                                         *)
(* Node runs every callback to completion, so each action below is one     *)
(* callback of the program (up to its next await) or one event of its      *)
(* environment (a chunk arriving, a provider answering, time passing).     *)
(***************************************************************************)
EXTENDS Integers, Sequences, FiniteSets, TLC

\* ------------------------------------------------------------------ bounds
\* Connections the server accepts in one behaviour.
MaxConns == 2
\* Heartbeat periods a stream is followed for (its clock stops there).
MaxPeriods == 3
\* Clock steps per heartbeat period.
TicksPerPeriod == 2

\* ------------------------------------------------------- program constants
\* setInterval(..., 30000), in milliseconds.
HeartbeatMs == 30000

TickMs == HeartbeatMs \div TicksPerPeriod
MaxAgeMs == MaxPeriods * HeartbeatMs

ConnIds == 1..MaxConns

\* -------------------------------------------------------- the tool registry
TOOL == "get-bitcoin-price"

\* const mcp = {...}: the schema, with the output properties as a list.
McpSchema ==
  [ schemaVersion |-> "2.0",
    toolName      |-> TOOL,
    description   |-> "Get the current price of Bitcoin (BTC) in USD",
    required      |-> << "price", "percent_change_24h", "market_cap",
                         "last_updated", "source" >> ]

RECURSIVE JoinQuoted(_)
JoinQuoted(s) ==
  IF s = << >> THEN ""
  ELSE "\"" \o Head(s) \o "\""
       \o (IF Len(s) > 1 THEN "," ELSE "") \o JoinQuoted(Tail(s))

RECURSIVE JoinProps(_)
JoinProps(s) ==
  IF s = << >> THEN ""
  ELSE "\"" \o Head(s) \o "\":{\"type\":\"string\"}"
       \o (IF Len(s) > 1 THEN "," ELSE "") \o JoinProps(Tail(s))

\* JSON.stringify(mcp): the text of the registry (property descriptions left out).
JSONstringifyMcp(m) ==
  "{\"schemaVersion\":\"" \o m.schemaVersion \o "\",\"tools\":{\""
  \o m.toolName \o "\":{\"description\":\"" \o m.description
  \o "\",\"input\":{\"type\":\"object\",\"properties\":{},\"required\":[]},"
  \o "\"output\":{\"type\":\"object\",\"properties\":{" \o JoinProps(m.required)
  \o "},\"required\":[" \o JoinQuoted(m.required) \o "]}}}}"

\* `data: ${JSON.stringify(mcp)}\n\n`
SSEData(payload) == "data: " \o payload \o "\n\n"
HeartbeatFrame == ":heartbeat\n\n"
HealthText == "{\"status\":\"healthy\"}"

\* ------------------------------------------------------------ the requests
Methods == {"GET", "POST", "OPTIONS"}
\* req.url: the request target, its query string included.
Urls == {"/", "/health", "/events", "/execute", "/other", "/health?probe=1"}

ToolText == "{\"name\":\"get-bitcoin-price\",\"arguments\":{}}"
UnknownText == "{\"name\":\"not-a-real-tool\",\"arguments\":{}}"
UndefNameText == "{\"name\":\"undefined\",\"arguments\":{}}"
NoNameText == "{}"
NullText == "null"
TruncatedText == "{\"name\":"

\* The bodies a client sends, as the chunks they arrive in.
Wires ==
  { << "{\"name\":\"get-bitcoin-price\"", ",\"arguments\":{}}" >>,
    << UnknownText >>,
    << UndefNameText >>,
    << NoNameText >>,
    << NullText >>,
    << TruncatedText >> }

\* JSON.parse(body) on the texts above; any other text is a syntax error.
JSONparse(text) ==
  CASE text = ToolText ->
         [ok |-> TRUE, type |-> "object", hasName |-> TRUE, name |-> TOOL, message |-> ""]
    [] text = UnknownText ->
         [ok |-> TRUE, type |-> "object", hasName |-> TRUE, name |-> "not-a-real-tool", message |-> ""]
    [] text = UndefNameText ->
         [ok |-> TRUE, type |-> "object", hasName |-> TRUE, name |-> "undefined", message |-> ""]
    [] text = NoNameText ->
         [ok |-> TRUE, type |-> "object", hasName |-> FALSE, name |-> "", message |-> ""]
    [] text = NullText ->
         [ok |-> TRUE, type |-> "null", hasName |-> FALSE, name |-> "", message |-> ""]
    [] OTHER ->
         [ok |-> FALSE, type |-> "none", hasName |-> FALSE, name |-> "",
          message |-> "Unexpected end of JSON input"]

\* `${request.name}`: a missing property reads as undefined and prints as "undefined".
NameText(request) == IF request.hasName THEN request.name ELSE "undefined"

\* ------------------------------------------------------------ the providers
\* What an axios.get brings: a full payload ("ok"), a rejected request
\* ("network"), a non-2xx status ("status"), a payload without the quote
\* object ("malformed"), a payload that lacks only the timestamp.
ProviderOutcomes == {"ok", "network", "status", "malformed", "no_last_updated"}

\* getBitcoinPriceFromCMC throws: axios rejects, or reading the quote or a
\* toFixed on a missing number throws. A missing last_updated is only copied.
CMCThrows(outcome) == outcome \in {"network", "status", "malformed"}

\* getBitcoinPriceFromCoinGecko throws: as above, and a missing
\* last_updated_at makes new Date(NaN).toISOString() throw a RangeError.
GeckoThrows(outcome) == outcome # "ok"

\* error.message of what a provider client throws.
ProviderErrorMessage(cause) ==
  CASE cause = "nokey" -> "COINMARKETCAP_API_KEY not found in environment variables"
    [] cause = "network" -> "getaddrinfo ENOTFOUND"
    [] cause = "status" -> "Request failed with status code 500"
    [] cause = "no_last_updated" -> "Invalid time value"
    [] OTHER -> "Cannot read properties of undefined (reading 'quote')"

NoRecord ==
  [price |-> "", percent_change_24h |-> "", market_cap |-> "",
   last_updated |-> "", source |-> ""]
CMCRecord ==
  [price |-> "43000.10", percent_change_24h |-> "-1.25", market_cap |-> "850000000000.00",
   last_updated |-> "2024-01-01T00:00:00.000Z", source |-> "CoinMarketCap"]
\* The record getBitcoinPriceFromCMC builds from a payload it does not throw on;
\* a last_updated of undefined is left out by JSON.stringify ("" here).
CMCRecordOf(outcome) ==
  IF outcome = "no_last_updated" THEN [CMCRecord EXCEPT !.last_updated = ""]
  ELSE CMCRecord

GeckoRecord ==
  [price |-> "43000.10", percent_change_24h |-> "-1.25", market_cap |-> "850000000000.00",
   last_updated |-> "2024-01-01T00:00:00.000Z", source |-> "CoinGecko"]

\* ------------------------------------------------------------ response bodies
NoBody == [tag |-> "none", text |-> "", message |-> "", data |-> NoRecord]
TextBody(s) == [tag |-> "text", text |-> s, message |-> "", data |-> NoRecord]
\* JSON.stringify({ error: { message } })
ErrorBody(msg) == [tag |-> "error", text |-> "", message |-> msg, data |-> NoRecord]
\* JSON.stringify({ result: bitcoinData })
ResultBody(rec) == [tag |-> "result", text |-> "", message |-> "", data |-> rec]

FailedMessage == "Failed to fetch Bitcoin price"
NullNameMessage == "Cannot read properties of null (reading 'name')"
UnknownToolMessage(name) == "Unknown tool: " \o name

\* ------------------------------------------------------------------ state
VARIABLES
  conns,    \* ConnIds -> the connection's request, response and handler state
  proc,     \* "listening", "closing" (after SIGINT) or "exited"
  exitCode, \* the argument of process.exit, -1 while the process runs
  apiKey,   \* whether process.env.COINMARKETCAP_API_KEY is set
  mcp       \* the tool registry object

vars == << conns, proc, exitCode, apiKey, mcp >>

NoConn ==
  [ route |-> "none", method |-> "", url |-> "", peer |-> "none",
    cors |-> FALSE, logged |-> FALSE,
    status |-> 0, reply |-> NoBody, frames |-> << >>, ended |-> FALSE,
    timer |-> "none", clears |-> 0, age |-> 0, sinceTimer |-> 0,
    pc |-> "idle", wire |-> << >>, body |-> "",
    cmcCalls |-> 0, geckoCalls |-> 0, cmcErr |-> "", geckoErr |-> "",
    cmcAnswer |-> "", geckoAnswer |-> "", life |-> << >>,
    sent |-> "", parsed |-> "", parses |-> 0, responses |-> 0 ]

nAccepted == Cardinality({c \in ConnIds : conns[c].route # "none"})

Init ==
  /\ conns = [c \in ConnIds |-> NoConn]
  /\ proc = "listening"
  /\ exitCode = -1
  /\ apiKey \in BOOLEAN
  /\ mcp = McpSchema

\* res.writeHead(status); res.end(body)
Respond(e, status, reply) ==
  [e EXCEPT !.status = status, !.reply = reply, !.ended = TRUE, !.pc = "done",
            !.responses = e.responses + 1]

\* --------------------------------------------------------- getBitcoinPrice
\* getBitcoinPriceFromCoinGecko is entered: its one axios.get goes out.
StartGecko(e, cause) ==
  [e EXCEPT !.cmcErr = cause, !.geckoCalls = e.geckoCalls + 1, !.pc = "gecko"]

StartPrice_CallAnyway(e, key) ==
  [e EXCEPT !.cmcCalls = e.cmcCalls + 1, !.pc = "cmc"]

StartPrice_Race(e, key) ==
  IF key THEN [e EXCEPT !.cmcCalls = e.cmcCalls + 1,
                        !.geckoCalls = e.geckoCalls + 1, !.pc = "cmc"]
  ELSE StartGecko(e, "nokey")

\* getBitcoinPrice is entered: getBitcoinPriceFromCMC throws without a key,
\* before its axios.get, and the catch falls back; with a key the call goes out.
StartPrice(e, key) ==
  IF key THEN [e EXCEPT !.cmcCalls = e.cmcCalls + 1, !.pc = "cmc"]
  ELSE StartGecko(e, "nokey")

AfterCMC_AlsoGecko(e, outcome) ==
  StartGecko(e, IF outcome = "ok" THEN "" ELSE outcome)

AfterCMC_NoFallback(e, outcome) ==
  IF ~CMCThrows(outcome) THEN Respond(e, 200, ResultBody(CMCRecordOf(outcome)))
  ELSE Respond([e EXCEPT !.cmcErr = outcome], 500, ErrorBody(FailedMessage))

\* The CoinMarketCap call settles: a record is returned to the handler, which
\* answers 200; any failure is rethrown and getBitcoinPrice falls back.
AfterCMC(e, outcome) ==
  IF ~CMCThrows(outcome) THEN Respond(e, 200, ResultBody(CMCRecordOf(outcome)))
  ELSE StartGecko(e, outcome)

AfterGecko_LeakCause(e, outcome) ==
  IF ~GeckoThrows(outcome) THEN Respond(e, 200, ResultBody(GeckoRecord))
  ELSE Respond([e EXCEPT !.geckoErr = outcome], 500,
               ErrorBody(ProviderErrorMessage(outcome)))

AfterGecko_Uncaught(e, outcome) ==
  IF ~GeckoThrows(outcome) THEN Respond(e, 200, ResultBody(GeckoRecord))
  ELSE [e EXCEPT !.geckoErr = outcome, !.pc = "thrown"]

\* The CoinGecko call settles: a record, or Error("Failed to fetch Bitcoin
\* price"), which the handler's catch answers with 500.
AfterGecko(e, outcome) ==
  IF ~GeckoThrows(outcome) THEN Respond(e, 200, ResultBody(GeckoRecord))
  ELSE Respond([e EXCEPT !.geckoErr = outcome], 500, ErrorBody(FailedMessage))

\* ------------------------------------------------- POST /execute, on "end"
\* JSON.parse(body) is called on the text buffered so far.
Parsing(e) == [e EXCEPT !.parsed = e.body, !.parses = e.parses + 1]

OnData_EagerParse(e) ==
  LET b == [e EXCEPT !.body = e.body \o Head(e.wire), !.wire = Tail(e.wire)] IN
  IF JSONparse(b.body).ok THEN b
  ELSE Respond(Parsing(b), 500, ErrorBody(JSONparse(b.body).message))

\* req.on("data"): body += chunk.toString()
OnData(e) ==
  [e EXCEPT !.body = e.body \o Head(e.wire), !.wire = Tail(e.wire)]

OnEnd_ParseFailureDefault(e, key) ==
  LET request == JSONparse(e.body)
      p == Parsing(e) IN
  IF ~request.ok THEN StartPrice(p, key)
  ELSE IF request.type = "null" THEN Respond(p, 500, ErrorBody(NullNameMessage))
  ELSE IF request.hasName /\ request.name = TOOL THEN StartPrice(p, key)
  ELSE Respond(p, 400, ErrorBody(UnknownToolMessage(NameText(request))))

OnEnd_AnyTool(e, key) ==
  LET request == JSONparse(e.body)
      p == Parsing(e) IN
  IF ~request.ok THEN Respond(p, 500, ErrorBody(request.message))
  ELSE IF request.type = "null" THEN Respond(p, 500, ErrorBody(NullNameMessage))
  ELSE StartPrice(p, key)

\* JSON.parse(body), then the test of request.name; every throw is caught and
\* answered with 500 and the error's message.
OnEnd(e, key) ==
  LET request == JSONparse(e.body)
      p == Parsing(e) IN
  IF ~request.ok THEN Respond(p, 500, ErrorBody(request.message))
  ELSE IF request.type = "null" THEN Respond(p, 500, ErrorBody(NullNameMessage))
  ELSE IF request.hasName /\ request.name = TOOL THEN StartPrice(p, key)
  ELSE Respond(p, 400, ErrorBody(UnknownToolMessage(NameText(request))))

\* ------------------------------------------------------ the request handler
\* The three CORS headers are set on every response, before any routing.
Request(method, url) ==
  [NoConn EXCEPT !.method = method, !.url = url, !.peer = "up", !.cors = TRUE]

\* OPTIONS: res.writeHead(204); res.end(); return, before the request is logged.
ServePreflight(req) ==
  [req EXCEPT !.route = "preflight", !.status = 204, !.ended = TRUE]

\* GET /events: the SSE head, the schema as the first event, the heartbeat
\* interval, the "close" listener. The response is left open.
ServeEvents(req, registry) ==
  [req EXCEPT !.route = "events", !.logged = TRUE, !.status = 200,
              !.frames = << SSEData(JSONstringifyMcp(registry)) >>,
              !.timer = "live",
              !.life = << "Opened", "RegistrySent", "HeartbeatLoop" >>]

ServeDiscovery_Stale(req, registry) ==
  [req EXCEPT !.route = "discovery", !.logged = TRUE, !.status = 200,
              !.reply = TextBody(JSONstringifyMcp([registry EXCEPT !.schemaVersion = "1.0"])),
              !.ended = TRUE]

\* GET /: res.end(JSON.stringify(mcp))
ServeDiscovery(req, registry) ==
  [req EXCEPT !.route = "discovery", !.logged = TRUE, !.status = 200,
              !.reply = TextBody(JSONstringifyMcp(registry)), !.ended = TRUE]

\* GET /health
ServeHealth(req) ==
  [req EXCEPT !.route = "health", !.logged = TRUE, !.status = 200,
              !.reply = TextBody(HealthText), !.ended = TRUE]

\* The whole text a client sends, chunk after chunk.
RECURSIVE Concat(_)
Concat(wire) == IF wire = << >> THEN "" ELSE Head(wire) \o Concat(Tail(wire))

\* POST /execute: the "data" and "end" listeners are registered, body = "".
ServeExecute(req, wire) ==
  [req EXCEPT !.route = "execute", !.logged = TRUE, !.pc = "receiving", !.wire = wire,
              !.sent = Concat(wire)]

\* Anything else: 404 { error: { message: "Not found" } }
ServeNotFound(req) ==
  [req EXCEPT !.route = "notfound", !.logged = TRUE, !.status = 404,
              !.reply = ErrorBody("Not found"), !.ended = TRUE]

Handle_NoPreflight(method, url, wire, registry) ==
  LET req == Request(method, url) IN
  IF method = "GET" /\ url = "/events" THEN ServeEvents(req, registry)
  ELSE IF method = "GET" /\ url = "/" THEN ServeDiscovery(req, registry)
  ELSE IF method = "GET" /\ url = "/health" THEN ServeHealth(req)
  ELSE IF method = "POST" /\ url = "/execute" THEN ServeExecute(req, wire)
  ELSE ServeNotFound(req)

Handle_UrlOnly(method, url, wire, registry) ==
  LET req == Request(method, url) IN
  IF method = "OPTIONS" THEN ServePreflight(req)
  ELSE IF url = "/events" THEN ServeEvents(req, registry)
  ELSE IF url = "/" THEN ServeDiscovery(req, registry)
  ELSE IF url = "/health" THEN ServeHealth(req)
  ELSE IF method = "POST" /\ url = "/execute" THEN ServeExecute(req, wire)
  ELSE ServeNotFound(req)

\* The callback of http.createServer.
Handle(method, url, wire, registry) ==
  LET req == Request(method, url) IN
  IF method = "OPTIONS" THEN ServePreflight(req)
  ELSE IF method = "GET" /\ url = "/events" THEN ServeEvents(req, registry)
  ELSE IF method = "GET" /\ url = "/" THEN ServeDiscovery(req, registry)
  ELSE IF method = "GET" /\ url = "/health" THEN ServeHealth(req)
  ELSE IF method = "POST" /\ url = "/execute" THEN ServeExecute(req, wire)
  ELSE ServeNotFound(req)

OnStreamClose_Leak(e) ==
  [e EXCEPT !.life = Append(e.life, "Closed")]

\* req.on("close"): clearInterval(heartbeatInterval)
OnStreamClose(e) ==
  [e EXCEPT !.timer = "cleared", !.clears = e.clears + 1,
            !.life = Append(e.life, "Closed")]

\* The socket is gone: what is left of the connection.
Closed(e) ==
  [NoConn EXCEPT !.route = e.route, !.peer = "gone",
                 !.timer = e.timer, !.clears = e.clears, !.life = e.life,
                 !.ended = e.ended /\ e.route = "events"]

\* ------------------------------------------------------------------ actions
Accept ==
  /\ proc = "listening"
  /\ nAccepted < MaxConns
  /\ \E method \in Methods, url \in Urls, wire \in Wires :
       /\ (method = "POST" /\ url = "/execute") \/ wire = << NoNameText >>
       /\ conns' = [conns EXCEPT ![nAccepted + 1] = Handle(method, url, wire, mcp)]
  /\ UNCHANGED << proc, exitCode, apiKey, mcp >>

\* A chunk of the body of connection c arrives.
DataOf(c) ==
  /\ proc # "exited"
  /\ conns[c].pc = "receiving" /\ conns[c].wire # << >>
  /\ conns' = [conns EXCEPT ![c] = OnData(conns[c])]
  /\ UNCHANGED << proc, exitCode, apiKey, mcp >>

Data == \E c \in ConnIds : DataOf(c)

EndOf_BehindStreams(c) ==
  /\ proc # "exited"
  /\ conns[c].pc = "receiving" /\ conns[c].wire = << >>
  /\ \A d \in ConnIds : ~(conns[d].route = "events" /\ conns[d].peer = "up")
  /\ conns' = [conns EXCEPT ![c] = OnEnd(conns[c], apiKey)]
  /\ UNCHANGED << proc, exitCode, apiKey, mcp >>

\* The body of connection c is complete: its "end" listener runs.
EndOf(c) ==
  /\ proc # "exited"
  /\ conns[c].pc = "receiving" /\ conns[c].wire = << >>
  /\ conns' = [conns EXCEPT ![c] = OnEnd(conns[c], apiKey)]
  /\ UNCHANGED << proc, exitCode, apiKey, mcp >>

End == \E c \in ConnIds : EndOf(c)

\* The CoinMarketCap call of connection c settles.
CMCReturnOf(c) ==
  \E outcome \in ProviderOutcomes :
    /\ proc # "exited"
    /\ conns[c].pc = "cmc"
    /\ conns' = [conns EXCEPT
                   ![c] = AfterCMC([conns[c] EXCEPT !.cmcAnswer = outcome], outcome)]
    /\ UNCHANGED << proc, exitCode, apiKey, mcp >>

CMCReturn == \E c \in ConnIds : CMCReturnOf(c)

\* The CoinGecko call of connection c settles.
GeckoReturnOf(c) ==
  \E outcome \in ProviderOutcomes :
    /\ proc # "exited"
    /\ conns[c].pc = "gecko"
    /\ conns' = [conns EXCEPT
                   ![c] = AfterGecko([conns[c] EXCEPT !.geckoAnswer = outcome], outcome)]
    /\ UNCHANGED << proc, exitCode, apiKey, mcp >>

GeckoReturn == \E c \in ConnIds : GeckoReturnOf(c)

TimerDue(e) == e.timer = "live" /\ e.sinceTimer >= HeartbeatMs

OnHeartbeat_Resend(e) ==
  [e EXCEPT !.frames = Append(e.frames, e.frames[1]), !.sinceTimer = 0]

OnHeartbeat_End(e) ==
  [e EXCEPT !.frames = Append(e.frames, HeartbeatFrame), !.sinceTimer = 0,
            !.ended = TRUE]

\* The interval callback: res.write(":heartbeat\n\n"); the timer is re-armed.
OnHeartbeat(e) ==
  [e EXCEPT !.frames = Append(e.frames, HeartbeatFrame), !.sinceTimer = 0]

Heartbeat ==
  \E c \in ConnIds :
    /\ proc # "exited"
    /\ TimerDue(conns[c])
    /\ conns' = [conns EXCEPT ![c] = OnHeartbeat(conns[c])]
    /\ UNCHANGED << proc, exitCode, apiKey, mcp >>

\* Time passes by one clock step; a due timer runs before more time passes.
Ticking(e) == e.timer = "live" /\ e.age < MaxAgeMs

Tick ==
  /\ proc # "exited"
  /\ \E c \in ConnIds : Ticking(conns[c])
  /\ \A c \in ConnIds : ~TimerDue(conns[c])
  /\ conns' = [c \in ConnIds |->
                 IF Ticking(conns[c])
                 THEN [conns[c] EXCEPT !.age = @ + TickMs, !.sinceTimer = @ + TickMs]
                 ELSE conns[c]]
  /\ UNCHANGED << proc, exitCode, apiKey, mcp >>

\* The peer closes its connection. On a stream this is the request's "close"
\* event. A peer is not followed leaving while its provider call is in flight.
OnPeerClose(e) ==
  IF e.route = "events" THEN Closed(OnStreamClose(e)) ELSE Closed(e)

PeerDisconnect ==
  \E c \in ConnIds :
    /\ proc # "exited"
    /\ conns[c].peer = "up"
    /\ conns[c].pc \notin {"cmc", "gecko"}
    /\ conns' = [conns EXCEPT ![c] = OnPeerClose(conns[c])]
    /\ UNCHANGED << proc, exitCode, apiKey, mcp >>

\* process.on("SIGINT"): server.close(callback) stops the listening. The
\* handler touches no connection and no timer. A second SIGINT calls
\* server.close() on a server that no longer listens and changes nothing.
SigInt ==
  /\ proc = "listening"
  /\ proc' = "closing"
  /\ UNCHANGED << conns, exitCode, apiKey, mcp >>

\* Every socket the server accepted is closed.
NoConnectionLeft == \A c \in ConnIds : conns[c].peer # "up"

\* process.exit(0) called in the SIGINT handler instead of the close callback.
Exit_InHandler ==
  /\ proc = "closing"
  /\ proc' = "exited"
  /\ exitCode' = 0
  /\ UNCHANGED << conns, apiKey, mcp >>

\* The callback of server.close(), run once no connection is left:
\* process.exit(0).
Exit ==
  /\ proc = "closing"
  /\ NoConnectionLeft
  /\ proc' = "exited"
  /\ exitCode' = 0
  /\ UNCHANGED << conns, apiKey, mcp >>

Next ==
  \/ Accept
  \/ Data
  \/ End
  \/ CMCReturn
  \/ GeckoReturn
  \/ Heartbeat
  \/ Tick
  \/ PeerDisconnect
  \/ SigInt
  \/ Exit

Spec == Init /\ [][Next]_vars

\* ================================================================== claims
Failures == ProviderOutcomes \ {"ok"}

\* The "end" handler has run on a body that names the tool.
ToolRequested(e) ==
  /\ e.route = "execute" /\ e.pc \notin {"idle", "receiving"}
  /\ LET request == JSONparse(e.body) IN
       request.ok /\ request.hasName /\ request.name = TOOL

\* The primary provider failed: no credential, or the call went out and failed.
PrimaryFailed(e) ==
  ToolRequested(e) /\ ((~apiKey) \/ CMCThrows(e.cmcAnswer))

Answered(e) == e.route = "execute" /\ e.pc = "done"

Beats(e) == Cardinality({i \in 1..Len(e.frames) : e.frames[i] = HeartbeatFrame})

OpenStream(e) == e.route = "events" /\ e.peer = "up"

\* C1: when the CoinMarketCap call of an invocation succeeds, the invocation
\* is answered 200 with a record whose source is CoinMarketCap, and no call
\* to CoinGecko is made in it.
C1_PrimarySuccess ==
  \A c \in ConnIds :
    conns[c].cmcAnswer = "ok" =>
      /\ conns[c].geckoCalls = 0
      /\ conns[c].cmcCalls = 1
      /\ conns[c].pc = "done"
      /\ conns[c].status = 200
      /\ conns[c].reply.tag = "result"
      /\ conns[c].reply.data.source = "CoinMarketCap"

C1_Witness ==
  \E c \in ConnIds :
    /\ conns[c].cmcAnswer = "ok" /\ Answered(conns[c])
    /\ conns[c].reply.data.source = "CoinMarketCap"

\* C2: when the primary provider fails, for whatever reason (no credential,
\* network, status, payload), CoinGecko is called exactly once, and when that
\* call succeeds the invocation is answered with a record whose source is
\* CoinGecko.
C2_FallbackOnce ==
  \A c \in ConnIds :
    PrimaryFailed(conns[c]) =>
      /\ conns[c].geckoCalls = 1
      /\ conns[c].cmcCalls = (IF apiKey THEN 1 ELSE 0)
      /\ conns[c].geckoAnswer = "ok" =>
           /\ conns[c].pc = "done"
           /\ conns[c].status = 200
           /\ conns[c].reply.tag = "result"
           /\ conns[c].reply.data.source = "CoinGecko"

C2_Witness ==
  \E c, d \in ConnIds :
    /\ PrimaryFailed(conns[c]) /\ conns[c].cmcAnswer = "malformed"
    /\ conns[c].geckoAnswer = "ok" /\ conns[c].reply.data.source = "CoinGecko"
    /\ PrimaryFailed(conns[d]) /\ conns[d].cmcAnswer = "network"
    /\ conns[d].pc = "gecko"

\* C3: when both providers fail, the /execute request is answered with the
\* one "Failed to fetch Bitcoin price" error, as a non-success status with an
\* { error: { message } } body, and no exception is left unhandled.
C3_AllProvidersFailed ==
  \A c \in ConnIds :
    (PrimaryFailed(conns[c]) /\ conns[c].geckoAnswer \in Failures) =>
      /\ conns[c].pc = "done"
      /\ conns[c].ended
      /\ conns[c].status >= 400
      /\ conns[c].reply = ErrorBody(FailedMessage)

C3_Witness ==
  \E c \in ConnIds :
    /\ PrimaryFailed(conns[c]) /\ conns[c].geckoAnswer \in Failures
    /\ conns[c].status = 500

\* C4 (as stated): a /execute request whose body cannot be parsed is answered
\* with a structured error and a client-error (4xx) status.
C4_MalformedIsClientError ==
  \A c \in ConnIds :
    (Answered(conns[c]) /\ ~JSONparse(conns[c].body).ok) =>
      /\ conns[c].reply.tag = "error"
      /\ conns[c].status \in 400..499

\* C5: a /execute request whose body parses to an object whose name is not
\* "get-bitcoin-price" is answered 400 with the error "Unknown tool: <name>",
\* and its handler leaves no exception unhandled.
NamesOtherTool(e) ==
  /\ e.route = "execute" /\ e.pc \notin {"idle", "receiving"}
  /\ LET request == JSONparse(e.body) IN
       request.ok /\ request.type = "object"
       /\ ~(request.hasName /\ request.name = TOOL)

C5_UnknownTool ==
  \A c \in ConnIds :
    NamesOtherTool(conns[c]) =>
      /\ conns[c].pc = "done"
      /\ conns[c].ended
      /\ conns[c].status = 400
      /\ conns[c].reply =
           ErrorBody(UnknownToolMessage(NameText(JSONparse(conns[c].body))))
      /\ conns[c].cmcCalls = 0 /\ conns[c].geckoCalls = 0

C5_Witness ==
  \E c \in ConnIds :
    /\ NamesOtherTool(conns[c]) /\ conns[c].body = UnknownText
    /\ conns[c].reply.message = "Unknown tool: not-a-real-tool"
    /\ proc = "listening"

\* C6 (as stated): the error messages of two /execute requests that fall in
\* different error classes (malformed body, unknown tool, all providers
\* failed) differ.
ErrorClass(e) ==
  LET request == JSONparse(e.body) IN
  IF ~request.ok \/ request.type # "object" \/ ~request.hasName THEN "MalformedRequest"
  ELSE IF request.name # TOOL THEN "UnknownTool"
  ELSE "AllProvidersFailed"

C6_ClassesDistinguishable ==
  \A c, d \in ConnIds :
    ( /\ Answered(conns[c]) /\ conns[c].reply.tag = "error"
      /\ Answered(conns[d]) /\ conns[d].reply.tag = "error"
      /\ ErrorClass(conns[c]) # ErrorClass(conns[d]) )
    => conns[c].reply.message # conns[d].reply.message

\* C7: an open stream carries the discovery payload exactly once, as its
\* first event, and only heartbeats after it: one per elapsed period of
\* 30000 ms, so at least two once it has been open for 90000 ms.
HoldMs == 3 * HeartbeatMs

C7_StreamEvents ==
  \A c \in ConnIds :
    OpenStream(conns[c]) =>
      LET e == conns[c] IN
      /\ Len(e.frames) >= 1
      /\ e.frames[1] = SSEData(JSONstringifyMcp(McpSchema))
      /\ \A i \in 2..Len(e.frames) : e.frames[i] = HeartbeatFrame
      /\ Beats(e) = Len(e.frames) - 1
      /\ Beats(e) <= e.age \div HeartbeatMs
      /\ Beats(e) >= (e.age \div HeartbeatMs) - 1
      /\ e.age >= HoldMs => Beats(e) >= 2

C7_Witness ==
  \E c \in ConnIds :
    /\ OpenStream(conns[c]) /\ conns[c].age >= HoldMs
    /\ Beats(conns[c]) >= 2

\* C8: a stream's heartbeat timer is live exactly while its connection is
\* open and is cleared exactly once, when the connection closes; the live
\* timers are as many as the open streams.
C8_NoTimerLeak ==
  /\ \A c \in ConnIds :
       /\ conns[c].route # "events" => conns[c].timer = "none" /\ conns[c].clears = 0
       /\ OpenStream(conns[c]) => conns[c].timer = "live" /\ conns[c].clears = 0
       /\ (conns[c].route = "events" /\ conns[c].peer = "gone") =>
            conns[c].timer = "cleared" /\ conns[c].clears = 1
  /\ Cardinality({c \in ConnIds : conns[c].timer = "live"})
       = Cardinality({c \in ConnIds : OpenStream(conns[c])})

C8_Witness ==
  \E c, d \in ConnIds :
    /\ conns[c].route = "events" /\ conns[c].peer = "gone" /\ conns[c].clears = 1
    /\ OpenStream(conns[d]) /\ conns[d].timer = "live"

\* C9: a stream goes through Opened, RegistrySent, HeartbeatLoop, Closed in
\* that order; the server never ends its response, and it is Closed only
\* once its peer has gone.
Lifecycle == << "Opened", "RegistrySent", "HeartbeatLoop", "Closed" >>

C9_StreamLifecycle ==
  \A c \in ConnIds :
    conns[c].route = "events" =>
      LET e == conns[c] IN
      /\ Len(e.life) \in 3..4
      /\ e.life = SubSeq(Lifecycle, 1, Len(e.life))
      /\ ~e.ended
      /\ e.peer = "up" => Len(e.life) = 3 /\ e.timer = "live"
      /\ Len(e.life) = 4 => e.peer = "gone"

C9_Witness ==
  \E c, d \in ConnIds :
    /\ conns[c].route = "events" /\ conns[c].life = Lifecycle
    /\ PrimaryFailed(conns[d]) /\ conns[d].geckoAnswer \in Failures

\* C10: the registry is the one built at startup, and the body of GET / and
\* the data of the first event of GET /events are its JSON text.
C10_DiscoveryIdentical ==
  /\ mcp = McpSchema
  /\ \A c \in ConnIds :
       /\ (conns[c].route = "discovery" /\ conns[c].peer = "up") =>
            /\ conns[c].reply.tag = "text"
            /\ conns[c].reply.text = JSONstringifyMcp(mcp)
       /\ OpenStream(conns[c]) =>
            conns[c].frames[1] = SSEData(JSONstringifyMcp(mcp))
       /\ \A d \in ConnIds :
            ( /\ conns[c].route = "discovery" /\ conns[c].peer = "up"
              /\ OpenStream(conns[d]) )
            => conns[d].frames[1] = SSEData(conns[c].reply.text)

C10_Witness ==
  \E c, d \in ConnIds :
    /\ conns[c].route = "discovery" /\ conns[c].peer = "up"
    /\ OpenStream(conns[d]) /\ Beats(conns[d]) >= 1

\* C11: the body of a /execute request is parsed once, and only when all of
\* the text the client sent has been buffered; the request is answered once,
\* whatever the outcome, and not at all before its body is complete.
C11_BufferThenOneResponse ==
  \A c \in ConnIds :
    (conns[c].route = "execute" /\ conns[c].peer = "up") =>
      LET e == conns[c] IN
      /\ e.pc = "receiving" => e.parses = 0 /\ e.responses = 0
      /\ e.pc \in {"cmc", "gecko"} => e.responses = 0
      /\ e.pc # "receiving" =>
           e.parses = 1 /\ e.parsed = e.sent /\ e.body = e.sent /\ e.wire = << >>
      /\ e.pc = "done" => e.responses = 1 /\ e.ended
      /\ e.pc \in {"receiving", "cmc", "gecko", "done"}

C11_Witness ==
  \E c, d \in ConnIds :
    /\ Answered(conns[c]) /\ conns[c].sent = ToolText /\ conns[c].responses = 1
    /\ conns[c].reply.tag = "result"
    /\ Answered(conns[d]) /\ conns[d].sent = TruncatedText /\ conns[d].responses = 1

\* C12: an OPTIONS request, on any url, is answered 204 with the CORS headers
\* and an empty body before any route is looked at: no stream is opened, no
\* timer is started, no body is read and no provider is called.
C12_Preflight ==
  \A c \in ConnIds :
    (conns[c].method = "OPTIONS" /\ conns[c].peer = "up") =>
      LET e == conns[c] IN
      /\ e.route = "preflight"
      /\ e.status = 204 /\ e.cors /\ e.ended /\ e.reply = NoBody
      /\ e.frames = << >> /\ e.timer = "none" /\ e.life = << >>
      /\ e.pc = "idle" /\ e.parses = 0
      /\ e.cmcCalls = 0 /\ e.geckoCalls = 0

C12_Witness ==
  \E c, d \in ConnIds :
    /\ conns[c].method = "OPTIONS" /\ conns[c].url = "/events" /\ conns[c].status = 204
    /\ conns[d].method = "OPTIONS" /\ conns[d].url = "/execute" /\ conns[d].status = 204

\* C13: a request that is not a preflight is served by the handler of its
\* route when its method and req.url are exactly GET /, GET /health,
\* GET /events or POST /execute, and is answered 404 {error:{message:
\* "Not found"}} otherwise.
RouteOf(method, url) ==
  CASE method = "GET" /\ url = "/" -> "discovery"
    [] method = "GET" /\ url = "/health" -> "health"
    [] method = "GET" /\ url = "/events" -> "events"
    [] method = "POST" /\ url = "/execute" -> "execute"
    [] OTHER -> "notfound"

C13_Routing ==
  \A c \in ConnIds :
    (conns[c].peer = "up" /\ conns[c].method # "OPTIONS") =>
      LET e == conns[c] IN
      /\ e.route = RouteOf(e.method, e.url)
      /\ e.route = "notfound" =>
           e.status = 404 /\ e.reply = ErrorBody("Not found") /\ e.ended
           /\ e.timer = "none" /\ e.pc = "idle"
      /\ e.route = "discovery" =>
           e.status = 200 /\ e.reply = TextBody(JSONstringifyMcp(mcp)) /\ e.ended
      /\ e.route = "health" =>
           e.status = 200 /\ e.reply = TextBody(HealthText) /\ e.ended
      /\ e.route = "events" => e.status = 200 /\ e.timer = "live" /\ ~e.ended
      /\ e.route = "execute" => e.pc # "idle" /\ e.timer = "none"
      /\ e.route # "events" => e.frames = << >>
      /\ e.route # "execute" => e.pc = "idle"

C13_Witness ==
  \E c, d \in ConnIds :
    /\ conns[c].method = "POST" /\ conns[c].url = "/events"
    /\ conns[c].status = 404 /\ conns[c].peer = "up"
    /\ conns[d].method = "GET" /\ conns[d].url = "/health?probe=1"
    /\ conns[d].status = 404 /\ conns[d].peer = "up"

\* C14 (as stated): every request the server accepts, whatever its method
\* and url, is logged with its method and url.
C14_EveryRequestLogged ==
  \A c \in ConnIds :
    (conns[c].route # "none" /\ conns[c].peer = "up") => conns[c].logged

\* C15: without the CoinMarketCap key, an invocation makes no request to
\* CoinMarketCap: the primary client fails with the missing-key error and
\* the one CoinGecko call is made instead.
C15_NoKeyNoPrimaryCall ==
  \A c \in ConnIds :
    (~apiKey /\ ToolRequested(conns[c])) =>
      /\ conns[c].cmcCalls = 0 /\ conns[c].cmcAnswer = ""
      /\ conns[c].cmcErr = "nokey"
      /\ conns[c].geckoCalls = 1
      /\ conns[c].pc \in {"gecko", "done"}

C15_Witness ==
  \E c \in ConnIds :
    /\ ~apiKey /\ ToolRequested(conns[c]) /\ conns[c].cmcCalls = 0
    /\ Answered(conns[c]) /\ conns[c].reply.data.source = "CoinGecko"

\* C16: when every provider failed, the answer is the same 500 with the same
\* generic message whatever the causes were: two such invocations have equal
\* answers, and the message is none of the providers' error messages.
AllFailed(e) == PrimaryFailed(e) /\ GeckoThrows(e.geckoAnswer) /\ e.geckoAnswer # ""

Causes == (ProviderOutcomes \ {"ok"}) \cup {"nokey"}

C16_GenericFailure ==
  \A c \in ConnIds :
    AllFailed(conns[c]) =>
      /\ conns[c].reply.tag = "error"
      /\ conns[c].reply.message \notin {ProviderErrorMessage(x) : x \in Causes}
      /\ \A d \in ConnIds :
           AllFailed(conns[d]) =>
             conns[d].status = conns[c].status /\ conns[d].reply = conns[c].reply

C16_Witness ==
  \E c, d \in ConnIds :
    /\ AllFailed(conns[c]) /\ AllFailed(conns[d])
    /\ conns[c].cmcAnswer = "network" /\ conns[c].geckoAnswer = "status"
    /\ conns[d].cmcAnswer = "malformed" /\ conns[d].geckoAnswer = "no_last_updated"

\* C17 (as stated): every record in an answer has its five fields, and an
\* invocation whose provider payload lacks a field gets no record from that
\* provider.
Populated(rec) ==
  /\ rec.price # "" /\ rec.percent_change_24h # "" /\ rec.market_cap # ""
  /\ rec.last_updated # "" /\ rec.source # ""

C17_NoPartialRecord ==
  \A c \in ConnIds :
    (Answered(conns[c]) /\ conns[c].reply.tag = "result") =>
      /\ Populated(conns[c].reply.data)
      /\ conns[c].reply.data.source = "CoinMarketCap" => conns[c].cmcAnswer = "ok"
      /\ conns[c].reply.data.source = "CoinGecko" => conns[c].geckoAnswer = "ok"

\* C18: whatever the other connections do, the next step of a /execute
\* request is never held back (its chunk, its "end", its provider answers can
\* always be taken, with streams open or not), and two requests with the
\* same body and the same provider answers get the same answer.
C18_Independent ==
  \A c \in ConnIds :
    (conns[c].route = "execute" /\ conns[c].peer = "up") =>
      LET e == conns[c] IN
      /\ (e.pc = "receiving" /\ e.wire # << >>) => ENABLED DataOf(c)
      /\ (e.pc = "receiving" /\ e.wire = << >>) => ENABLED EndOf(c)
      /\ e.pc = "cmc" => ENABLED CMCReturnOf(c)
      /\ e.pc = "gecko" => ENABLED GeckoReturnOf(c)
      /\ \A d \in ConnIds :
           ( /\ Answered(e) /\ Answered(conns[d])
             /\ conns[d].sent = e.sent
             /\ conns[d].cmcAnswer = e.cmcAnswer
             /\ conns[d].geckoAnswer = e.geckoAnswer )
           => conns[d].status = e.status /\ conns[d].reply = e.reply

C18_Witness ==
  \E c, d \in ConnIds :
    /\ OpenStream(conns[c]) /\ Beats(conns[c]) >= 1
    /\ Answered(conns[d]) /\ conns[d].reply.tag = "result"

\* C19: in one invocation each provider is called at most once, CoinGecko
\* only after CoinMarketCap has failed (its call settled with a throw, or no
\* key), and the two calls are never in flight together.
CMCInFlight(e) == e.cmcCalls > 0 /\ e.cmcAnswer = ""
GeckoInFlight(e) == e.geckoCalls > 0 /\ e.geckoAnswer = ""

C19_SequentialNoRetry ==
  \A c \in ConnIds :
    (conns[c].route = "execute" /\ conns[c].peer = "up") =>
      LET e == conns[c] IN
      /\ e.cmcCalls <= 1 /\ e.geckoCalls <= 1
      /\ ~(CMCInFlight(e) /\ GeckoInFlight(e))
      /\ e.geckoCalls = 1 =>
           \/ e.cmcCalls = 0 /\ ~apiKey
           \/ e.cmcCalls = 1 /\ CMCThrows(e.cmcAnswer)
      /\ CMCInFlight(e) <=> e.pc = "cmc"
      /\ GeckoInFlight(e) <=> e.pc = "gecko"

C19_Witness ==
  \E c \in ConnIds :
    /\ conns[c].cmcCalls = 1 /\ conns[c].cmcAnswer = "status"
    /\ GeckoInFlight(conns[c])

\* C20: a provider is called only for a body that parses and names
\* "get-bitcoin-price"; an unparsable body or another name is answered with
\* an error without any provider call.
C20_FailFast ==
  \A c \in ConnIds :
    (conns[c].route = "execute" /\ conns[c].peer = "up") =>
      LET e == conns[c]
          request == JSONparse(e.sent) IN
      /\ (e.cmcCalls + e.geckoCalls > 0 \/ e.pc \in {"cmc", "gecko"}) =>
           /\ e.body = e.sent
           /\ request.ok /\ request.hasName /\ request.name = TOOL
      /\ (e.pc # "receiving" /\ ~(request.ok /\ request.hasName /\ request.name = TOOL)) =>
           /\ e.pc = "done" /\ e.reply.tag = "error"
           /\ e.cmcCalls = 0 /\ e.geckoCalls = 0
           /\ e.cmcAnswer = "" /\ e.geckoAnswer = ""

C20_Witness ==
  \E c, d \in ConnIds :
    /\ Answered(conns[c]) /\ conns[c].sent = TruncatedText
    /\ conns[c].cmcCalls + conns[c].geckoCalls = 0
    /\ Answered(conns[d]) /\ conns[d].sent = UnknownText
    /\ conns[d].cmcCalls + conns[d].geckoCalls = 0

\* C21: after SIGINT no new connection is accepted, and the process exits,
\* with status 0, only once every accepted connection has closed. The
\* shutdown changes no connection: it neither ends an open stream nor clears
\* its heartbeat timer, so a stream whose peer stays connected still has its
\* timer running and the process has not exited.
C21_Shutdown ==
  /\ [](/\ (proc = "exited") = (exitCode = 0)
        /\ proc # "exited" => exitCode = -1
        /\ proc = "exited" => NoConnectionLeft
        /\ \A c \in ConnIds :
             OpenStream(conns[c]) =>
               /\ proc # "exited"
               /\ ~conns[c].ended
               /\ conns[c].timer = "live" /\ conns[c].clears = 0)
  /\ [][/\ proc # "listening" => nAccepted' = nAccepted
        /\ proc' # proc =>
             /\ conns' = conns
             /\ << proc, proc' >> \in {<< "listening", "closing" >>,
                                      << "closing", "exited" >>}]_vars

\* The server is closing and the only connection left is a stream that has
\* kept beating.
C21_Witness ==
  /\ proc = "closing"
  /\ \E c \in ConnIds :
       /\ OpenStream(conns[c]) /\ Beats(conns[c]) >= 1
       /\ conns[c].timer = "live"
       /\ \A d \in ConnIds \ {c} : conns[d].peer = "gone"

====
